---------------------------- MODULE Spec2Model ----------------------------
(***************************************************************************)
(* A model of the two container decoders of package llm:                   *)
(*   - containerGGUF.Decode / modelGGUF.decode   (src/llm/gguf.go)         *)
(*   - containerGGLA.Decode / modelGGLA.decode   (src/llm/ggla.go)         *)
(*                                                                         *)
(* A decode call is a sequential program over a stream.  Each read of the  *)
(* code is one step; what the stream holds at that place is the            *)
(* environment's choice: either the bytes asked for are there (a value of  *)
(* a small pool), or the stream ends inside the field (a short read).      *)
(* Once the stream has ended every later read of one byte or more fails.   *)
(* A string is a sequence of bytes, a byte is a one-character token.       *)
(***************************************************************************)
EXTENDS Integers, Sequences, FiniteSets, TLC

VARIABLES
    pc,          \* position of the decode call in its code
    focus,       \* which family of streams the environment serves
    eof,         \* the stream has ended: a read came back short
    offset,      \* readSeekOffset.offset
    Version,     \* containerGGUF.Version / containerGGLA.version
    NumTensor,   \* containerGGUF.V1.NumTensor / V2.NumTensor
    NumKV,       \* containerGGUF.V1.NumKV / V2.NumKV
    i,           \* loop index of the running loop of decode
    k,           \* key of the key/value entry being decoded
    vtype,       \* type tag of the entry being decoded
    atype,       \* element tag of the array being read
    n,           \* declared element count of the array being read
    arr,         \* elements of the array read so far
    kv,          \* modelGGUF.kv / modelGGLA.kv
    tensors,     \* modelGGUF.tensors / modelGGLA.tensors
    parameters,  \* modelGGUF.parameters
    name,        \* name of the tensor being decoded
    dims,        \* dimension count of the tensor being decoded
    shape,       \* shape values read so far of the tensor being decoded
    kind,        \* kind code of the tensor being decoded (GGLA)
    namesize,    \* name length of the tensor being decoded (GGLA)
    alignment,   \* the alignment decode settled on
    model,       \* first result of Decode: "none" until it returns
    err,         \* second result of Decode
    entries,     \* history: the top-level entries decoded, in stream order
    wire,        \* history: the GGLA entries completely read, as they were read
    raw,         \* history: the dimension values of the entry being read
    padStart,    \* history: offset at which pad-to-alignment started
    skipped      \* history: the distance of each tensor skip

vars == <<pc, focus, eof, offset, Version, NumTensor, NumKV, i, k, vtype,
          atype, n, arr, kv, tensors, parameters, name, dims, shape, kind,
          namesize, alignment, model, err, entries, wire, raw, padStart,
          skipped>>

-----------------------------------------------------------------------------
(* Bounds of the model. *)
MaxKV == 2
MaxTensors == 2
MaxDims == 2
MaxArrayLen == 1

-----------------------------------------------------------------------------
(* The type tags of Format-A. *)
ggufTypeUint8 == 0
ggufTypeInt8 == 1
ggufTypeUint16 == 2
ggufTypeInt16 == 3
ggufTypeUint32 == 4
ggufTypeInt32 == 5
ggufTypeFloat32 == 6
ggufTypeBool == 7
ggufTypeString == 8
ggufTypeArray == 9
ggufTypeUint64 == 10
ggufTypeInt64 == 11
ggufTypeFloat64 == 12

DefaultAlignment == 32

NUL == "NUL"

KeyAlignment ==
    <<"g","e","n","e","r","a","l",".","a","l","i","g","n","m","e","n","t">>

KeyChatTemplate ==
    <<"t","o","k","e","n","i","z","e","r",".",
      "c","h","a","t","_","t","e","m","p","l","a","t","e">>

KeyParameterCount ==
    <<"g","e","n","e","r","a","l",".",
      "p","a","r","a","m","e","t","e","r","_","c","o","u","n","t">>

NilErr == [kind |-> "nil", tag |-> 0]
EOFErr == [kind |-> "EOF", tag |-> 0]
InvalidType(t) == [kind |-> "invalid type", tag |-> t]
InvalidArrayType(t) == [kind |-> "invalid array type", tag |-> t]
InvalidVersion == [kind |-> "invalid version", tag |-> 0]


-----------------------------------------------------------------------------
(* What the environment serves.  focus names the family of streams of a    *)
(* run: "kv" varies the key/value block of a complete Format-A stream,     *)
(* "tensor" varies its tensor catalog and its alignment, "short" is a      *)
(* Format-A stream that may end anywhere, "ggla" is a Format-B stream.     *)

VersionPool == IF focus = "tensor" THEN {3} ELSE {1, 3}

Terminated(S) == {w \o <<NUL>> : w \in S}

WireStrings(ver, S) == IF ver = 1 THEN Terminated(S) ELSE S

CountPool ==
    IF focus = "tensor"
    THEN [NumTensor : 0..MaxTensors, NumKV : 0..1]
    ELSE [NumTensor : 0..1, NumKV : 0..MaxKV]

KeyPool ==
    CASE focus = "kv" ->
           WireStrings(Version, {KeyAlignment, KeyChatTemplate, KeyParameterCount})
      [] focus = "tensor" -> WireStrings(Version, {KeyAlignment, KeyParameterCount})
      [] OTHER -> WireStrings(Version, {<<"k">>}) \cup {<<>>}

TagPool ==
    CASE focus = "kv" ->
           {ggufTypeUint32, ggufTypeString, ggufTypeArray, ggufTypeUint64, 255}
      [] focus = "tensor" -> {ggufTypeUint32, ggufTypeBool}
      [] OTHER -> {ggufTypeUint32, ggufTypeString, ggufTypeArray}

ScalarPool(tag) ==
    IF tag = ggufTypeUint32
    THEN (IF focus = "tensor" THEN {0, 24, 64} ELSE {64})
    ELSE {1}

StringPool ==
    IF focus = "short"
    THEN WireStrings(Version, {<<"v">>}) \cup {<<>>}
    ELSE WireStrings(Version, {<<"v">>})

ArrayTagPool ==
    IF focus = "short"
    THEN {ggufTypeUint8, ggufTypeString}
    ELSE {ggufTypeUint8, ggufTypeArray, ggufTypeUint64, 255}

NamePool == WireStrings(Version, {<<"w">>})

DimsPool == IF focus = "tensor" THEN 0..MaxDims ELSE {1}

ShapePool == IF focus = "tensor" THEN {2, 3} ELSE {2}

KindPool == IF focus = "tensor" THEN {0, 1} ELSE {0}

OffsetPool == {0}

-----------------------------------------------------------------------------
(* The stream. *)

\* The byte counts a short read of w bytes may have consumed: the stream
\* ends at the start of the field, or one byte before its end.
Partial(w) ==
    IF focus \in {"short", "ggla"}
    THEN (IF w > 1 THEN {0, w - 1} ELSE {0})
    ELSE {}

\* binary.Read(r, bo, &x) of a w-byte field into a zeroed x: the value and
\* w bytes consumed, or a short read that leaves x at its zero value.
binaryRead(e, w, P, zero) ==
    IF e
    THEN {[ok |-> FALSE, v |-> zero, got |-> 0]}
    ELSE {[ok |-> TRUE, v |-> x, got |-> w] : x \in P}
         \cup {[ok |-> FALSE, v |-> zero, got |-> g] : g \in Partial(w)}

\* A read of cnt bytes: all of them, or an error when fewer are left.  A read
\* of no bytes succeeds wherever the stream stands.
ReadBytes(e, cnt, P) ==
    IF cnt = 0
    THEN {[ok |-> TRUE, b |-> <<>>, got |-> 0]}
    ELSE IF e
    THEN {[ok |-> FALSE, b |-> <<>>, got |-> 0]}
    ELSE {[ok |-> TRUE, b |-> w, got |-> cnt] : w \in {x \in P : Len(x) = cnt}}
         \cup {[ok |-> FALSE, b |-> <<>>, got |-> g] : g \in Partial(cnt)}

\* io.CopyN(&b, r, cnt)
CopyN(e, cnt, P) == ReadBytes(e, cnt, P)

\* bytes.Buffer.Truncate(m) panics when m is out of range.
TruncatePanics(b, m) == m < 0 \/ m > Len(b)

Truncate(b, m) == SubSeq(b, 1, m)

\* modelGGUF.readStringV1: 32-bit length, the bytes, the last byte dropped.
readStringV1(e, P) ==
    UNION {
      { IF ~c.ok
        THEN [s |-> <<>>, ok |-> FALSE, panic |-> FALSE,
              got |-> l.got + c.got, eof |-> TRUE]
        ELSE IF TruncatePanics(c.b, Len(c.b) - 1)
        THEN [s |-> <<>>, ok |-> FALSE, panic |-> TRUE,
              got |-> l.got + c.got, eof |-> e \/ ~l.ok]
        ELSE [s |-> Truncate(c.b, Len(c.b) - 1), ok |-> TRUE, panic |-> FALSE,
              got |-> l.got + c.got, eof |-> e \/ ~l.ok]
        : c \in CopyN(e \/ ~l.ok, l.v, P) }
      : l \in binaryRead(e, 4, {Len(w) : w \in P}, 0) }

\* modelGGUF.readString: version 1 delegates; later versions read a 64-bit
\* length and the bytes, nothing dropped.
readString(e, ver, P) ==
    IF ver = 1
    THEN readStringV1(e, P)
    ELSE UNION {
      { IF ~c.ok
        THEN [s |-> <<>>, ok |-> FALSE, panic |-> FALSE,
              got |-> l.got + c.got, eof |-> TRUE]
        ELSE [s |-> c.b, ok |-> TRUE, panic |-> FALSE,
              got |-> l.got + c.got, eof |-> e \/ ~l.ok]
        : c \in CopyN(e \/ ~l.ok, l.v, P) }
      : l \in binaryRead(e, 8, {Len(w) : w \in P}, 0) }

\* Width in bytes of the scalar a type tag names.
Width(tag) ==
    CASE tag \in {ggufTypeUint8, ggufTypeInt8, ggufTypeBool} -> 1
      [] tag \in {ggufTypeUint16, ggufTypeInt16} -> 2
      [] tag \in {ggufTypeUint32, ggufTypeInt32, ggufTypeFloat32} -> 4
      [] tag \in {ggufTypeUint64, ggufTypeInt64, ggufTypeFloat64} -> 8

\* The scalar cases of the switch of decode.
ScalarTags ==
    {ggufTypeUint8, ggufTypeInt8, ggufTypeUint16, ggufTypeInt16,
     ggufTypeUint32, ggufTypeInt32, ggufTypeUint64, ggufTypeInt64,
     ggufTypeFloat32, ggufTypeFloat64, ggufTypeBool}

\* The scalar cases of the switch of readArrayV1 / readArray.
ArrayScalarTags(ver) ==
    IF ver = 1
    THEN {ggufTypeUint8, ggufTypeInt8, ggufTypeUint16, ggufTypeInt16,
          ggufTypeUint32, ggufTypeInt32, ggufTypeFloat32, ggufTypeBool}
    ELSE ScalarTags

-----------------------------------------------------------------------------
(* Arithmetic. *)

\* x &^ m on non-negative 64-bit integers: the bits of x that m does not hold.
RECURSIVE AndNot(_, _)
AndNot(x, m) ==
    IF x = 0
    THEN 0
    ELSE (IF x % 2 = 1 /\ m % 2 = 0 THEN 1 ELSE 0) + 2 * AndNot(x \div 2, m \div 2)

RECURSIVE Product(_)
Product(s) == IF s = <<>> THEN 1 ELSE Head(s) * Product(Tail(s))

\* tensor.parameters(): the element count of a tensor.
tensorParameters(t) == Product(t.Shape)

\* The size oracle's table: elements per block and bytes per block.
blockSize(t) == CASE t.Kind = 0 -> 1 [] t.Kind = 1 -> 1

typeSize(t) == CASE t.Kind = 0 -> 4 [] t.Kind = 1 -> 2

\* tensor.size(): the byte footprint of a tensor.
tensorSize(t) == (tensorParameters(t) * typeSize(t)) \div blockSize(t)

\* The smallest multiple of a that is not less than x (a > 0).
SmallestMultiple(a, x) == ((x + a - 1) \div a) * a

-----------------------------------------------------------------------------
(* Format-A: containerGGUF.Decode and modelGGUF.decode. *)

Put(m, key, v) == [x \in DOMAIN m \cup {key} |-> IF x = key THEN v ELSE m[x]]

\* The filter with its two tests joined by "or".
StoreKVEither(m, key, t, v) ==
    IF t # ggufTypeArray \/ key # KeyChatTemplate THEN Put(m, key, v) ELSE m

\* The filter of decode: an array entry and the chat template are dropped.
StoreKV(m, key, t, v) ==
    IF t # ggufTypeArray /\ key # KeyChatTemplate THEN Put(m, key, v) ELSE m

\* The patch that leaves a key of the stream in place.
PatchIfAbsent(m, p) ==
    IF KeyParameterCount \in DOMAIN m
    THEN m
    ELSE Put(m, KeyParameterCount, [t |-> ggufTypeUint64, v |-> p])

\* llm.kv["general.parameter_count"] = llm.parameters
PatchParameterCount(m, p) ==
    Put(m, KeyParameterCount, [t |-> ggufTypeUint64, v |-> p])

\* alignment, ok := llm.kv["general.alignment"].(uint32); 32 when not ok.
Alignment(m) ==
    IF KeyAlignment \in DOMAIN m /\ m[KeyAlignment].t = ggufTypeUint32
    THEN m[KeyAlignment].v
    ELSE DefaultAlignment

\* The distance of the seek that pads to the alignment (a # 0).
PadDistance(a, off) == a - (off % a)

\* The distance of the seek that skips a tensor of sz bytes.
Padded(sz, a) == AndNot(sz + a - 1, a - 1)

\* containerGGUF.Decode hands back the model it built together with the
\* error of decode.
ResultGGUF(e) == [model |-> "model", err |-> e]

ReturnGGUF(e) ==
    /\ model' = ResultGGUF(e).model
    /\ err' = ResultGGUF(e).err
    /\ pc' = "done"

\* Where decode goes after idx key/value entries, and after idx tensors.
TensorLoop(idx) == IF idx < NumTensor THEN "t_name" ELSE "finish"

KVLoop(idx) == IF idx < NumKV THEN "kv_key" ELSE TensorLoop(0)

ReadVersion ==
    /\ pc = "version"
    /\ \E r \in binaryRead(eof, 4, VersionPool, 0) :
         /\ Version' = r.v
         /\ eof' = (eof \/ ~r.ok)
         /\ offset' = offset + r.got
    /\ pc' = "counts"
    /\ UNCHANGED <<focus, NumTensor, NumKV, i, k, vtype, atype, n, arr, kv,
                   tensors, parameters, name, dims, shape, kind, namesize,
                   alignment, model, err, entries, wire, raw, padStart, skipped>>

ReadCounts ==
    /\ pc = "counts"
    /\ \E r \in binaryRead(eof, IF Version = 1 THEN 8 ELSE 16, CountPool,
                           [NumTensor |-> 0, NumKV |-> 0]) :
         /\ NumTensor' = r.v.NumTensor
         /\ NumKV' = r.v.NumKV
         /\ eof' = (eof \/ ~r.ok)
         /\ offset' = offset + r.got
         /\ pc' = IF 0 < r.v.NumKV THEN "kv_key"
                  ELSE IF 0 < r.v.NumTensor THEN "t_name" ELSE "finish"
    /\ UNCHANGED <<focus, Version, i, k, vtype, atype, n, arr, kv, tensors,
                   parameters, name, dims, shape, kind, namesize, alignment,
                   model, err, entries, wire, raw, padStart, skipped>>

ReadKey ==
    /\ pc = "kv_key"
    /\ \E r \in readString(eof, Version, KeyPool) :
         /\ eof' = r.eof
         /\ offset' = offset + r.got
         /\ IF r.panic
            THEN pc' = "panic_truncate" /\ UNCHANGED <<k, model, err>>
            ELSE IF ~r.ok
            THEN ReturnGGUF(EOFErr) /\ UNCHANGED k
            ELSE k' = r.s /\ pc' = "kv_tag" /\ UNCHANGED <<model, err>>
    /\ UNCHANGED <<focus, Version, NumTensor, NumKV, i, vtype, atype, n, arr,
                   kv, tensors, parameters, name, dims, shape, kind, namesize,
                   alignment, entries, wire, raw, padStart, skipped>>

ReadTag ==
    /\ pc = "kv_tag"
    /\ \E r \in binaryRead(eof, 4, TagPool, 0) :
         /\ vtype' = r.v
         /\ eof' = (eof \/ ~r.ok)
         /\ offset' = offset + r.got
         /\ IF r.v \in ScalarTags
            THEN pc' = "kv_scalar" /\ UNCHANGED <<model, err>>
            ELSE IF r.v = ggufTypeString
            THEN pc' = "kv_string" /\ UNCHANGED <<model, err>>
            ELSE IF r.v = ggufTypeArray
            THEN pc' = "arr_head" /\ UNCHANGED <<model, err>>
            ELSE ReturnGGUF(InvalidType(r.v))
    /\ UNCHANGED <<focus, Version, NumTensor, NumKV, i, k, atype, n, arr, kv,
                   tensors, parameters, name, dims, shape, kind, namesize,
                   alignment, entries, wire, raw, padStart, skipped>>

\* The end of one iteration of the key/value loop: the filter, then i++.
EntryDone(v, at) ==
    /\ kv' = StoreKV(kv, k, vtype, [t |-> vtype, v |-> v])
    /\ entries' = Append(entries, [k |-> k, t |-> vtype, v |-> v, at |-> at,
                                    end |-> offset'])
    /\ pc' = KVLoop(i + 1)
    /\ i' = IF i + 1 < NumKV THEN i + 1 ELSE 0

ReadScalar ==
    /\ pc = "kv_scalar"
    /\ \E r \in binaryRead(eof, Width(vtype), ScalarPool(vtype), 0) :
         /\ eof' = (eof \/ ~r.ok)
         /\ offset' = offset + r.got
         /\ EntryDone(r.v, -1)
    /\ UNCHANGED <<focus, Version, NumTensor, NumKV, k, vtype, atype, n, arr,
                   tensors, parameters, name, dims, shape, kind, namesize,
                   alignment, model, err, wire, raw, padStart, skipped>>

ReadStringValue ==
    /\ pc = "kv_string"
    /\ \E r \in readString(eof, Version, StringPool) :
         /\ eof' = r.eof
         /\ offset' = offset + r.got
         /\ IF r.panic
            THEN pc' = "panic_truncate" /\ UNCHANGED <<kv, entries, i, model, err>>
            ELSE IF ~r.ok
            THEN ReturnGGUF(EOFErr) /\ UNCHANGED <<kv, entries, i>>
            ELSE EntryDone(r.s, -1) /\ UNCHANGED <<model, err>>
    /\ UNCHANGED <<focus, Version, NumTensor, NumKV, k, vtype, atype, n, arr,
                   tensors, parameters, name, dims, shape, kind, namesize,
                   alignment, wire, raw, padStart, skipped>>

\* readArrayV1 / readArray up to the loop: the element tag and the count.
ReadArrayHead ==
    /\ pc = "arr_head"
    /\ \E a \in binaryRead(eof, 4, ArrayTagPool, 0) :
       \E c \in binaryRead(eof \/ ~a.ok, IF Version = 1 THEN 4 ELSE 8,
                           0..MaxArrayLen, 0) :
         /\ atype' = a.v
         /\ n' = c.v
         /\ arr' = <<>>
         /\ eof' = (eof \/ ~a.ok \/ ~c.ok)
         /\ offset' = offset + a.got + c.got
         /\ IF 0 < c.v
            THEN pc' = "arr_elem" /\ UNCHANGED <<kv, entries, i>>
            ELSE EntryDone(<<>>, a.v)
    /\ UNCHANGED <<focus, Version, NumTensor, NumKV, k, vtype, tensors,
                   parameters, name, dims, shape, kind, namesize, alignment,
                   model, err, wire, raw, padStart, skipped>>

\* The end of one iteration of the loop of readArrayV1 / readArray.
ElementDone(x) ==
    /\ arr' = Append(arr, x)
    /\ IF Len(arr) + 1 < n
       THEN pc' = "arr_elem" /\ UNCHANGED <<kv, entries, i>>
       ELSE EntryDone(Append(arr, x), atype)

\* One iteration of the loop of readArrayV1 / readArray.
ReadArrayElement ==
    /\ pc = "arr_elem"
    /\ IF atype \in ArrayScalarTags(Version)
       THEN \E r \in binaryRead(eof, Width(atype), {1}, 0) :
              /\ eof' = (eof \/ ~r.ok)
              /\ offset' = offset + r.got
              /\ ElementDone(r.v)
              /\ UNCHANGED <<model, err>>
       ELSE IF atype = ggufTypeString
       THEN \E r \in readString(eof, Version, StringPool) :
              /\ eof' = r.eof
              /\ offset' = offset + r.got
              /\ IF r.panic
                 THEN pc' = "panic_truncate" /\ UNCHANGED <<arr, kv, entries, i, model, err>>
                 ELSE IF ~r.ok
                 THEN ReturnGGUF(EOFErr) /\ UNCHANGED <<arr, kv, entries, i>>
                 ELSE ElementDone(r.s) /\ UNCHANGED <<model, err>>
       ELSE /\ ReturnGGUF(InvalidArrayType(atype))
            /\ UNCHANGED <<eof, offset, arr, kv, entries, i>>
    /\ UNCHANGED <<focus, Version, NumTensor, NumKV, k, vtype, atype, n,
                   tensors, parameters, name, dims, shape, kind, namesize,
                   alignment, wire, raw, padStart, skipped>>

ReadTensorName ==
    /\ pc = "t_name"
    /\ \E r \in readString(eof, Version, NamePool) :
         /\ eof' = r.eof
         /\ offset' = offset + r.got
         /\ IF r.panic
            THEN pc' = "panic_truncate" /\ UNCHANGED <<name, model, err>>
            ELSE IF ~r.ok
            THEN ReturnGGUF(EOFErr) /\ UNCHANGED name
            ELSE name' = r.s /\ pc' = "t_dims" /\ UNCHANGED <<model, err>>
    /\ UNCHANGED <<focus, Version, NumTensor, NumKV, i, k, vtype, atype, n,
                   arr, kv, tensors, parameters, dims, shape, kind, namesize,
                   alignment, entries, wire, raw, padStart, skipped>>

ReadDims ==
    /\ pc = "t_dims"
    /\ \E r \in binaryRead(eof, 4, DimsPool, 0) :
         /\ dims' = r.v
         /\ eof' = (eof \/ ~r.ok)
         /\ offset' = offset + r.got
         /\ pc' = IF 0 < r.v THEN "t_shape" ELSE "t_tail"
    /\ shape' = <<>>
    /\ UNCHANGED <<focus, Version, NumTensor, NumKV, i, k, vtype, atype, n,
                   arr, kv, tensors, parameters, name, kind, namesize,
                   alignment, model, err, entries, wire, raw, padStart, skipped>>

ReadShape ==
    /\ pc = "t_shape"
    /\ \E r \in binaryRead(eof, 8, ShapePool, 0) :
         /\ shape' = Append(shape, r.v)
         /\ eof' = (eof \/ ~r.ok)
         /\ offset' = offset + r.got
    /\ pc' = IF Len(shape) + 1 < dims THEN "t_shape" ELSE "t_tail"
    /\ UNCHANGED <<focus, Version, NumTensor, NumKV, i, k, vtype, atype, n,
                   arr, kv, tensors, parameters, name, dims, kind, namesize,
                   alignment, model, err, entries, wire, raw, padStart, skipped>>

\* The kind and the offset, then the append and the parameter total.
ReadTensorTail ==
    /\ pc = "t_tail"
    /\ \E kd \in binaryRead(eof, 4, KindPool, 0) :
       \E of \in binaryRead(eof \/ ~kd.ok, 8, OffsetPool, 0) :
         LET t == [Name |-> name, Kind |-> kd.v, offset |-> of.v, Shape |-> shape]
         IN /\ tensors' = Append(tensors, t)
            /\ parameters' = parameters + tensorParameters(t)
            /\ eof' = (eof \/ ~kd.ok \/ ~of.ok)
            /\ offset' = offset + kd.got + of.got
    /\ pc' = TensorLoop(i + 1)
    /\ i' = IF i + 1 < NumTensor THEN i + 1 ELSE 0
    /\ UNCHANGED <<focus, Version, NumTensor, NumKV, k, vtype, atype, n, arr,
                   kv, name, dims, shape, kind, namesize, alignment, model,
                   err, entries, wire, raw, padStart, skipped>>

\* The parameter-count patch, the alignment and the pad-to-alignment seek.
\* The remainder by an alignment of 0 is a run-time panic.
Finish ==
    /\ pc = "finish"
    /\ kv' = PatchParameterCount(kv, parameters)
    /\ alignment' = Alignment(kv')
    /\ IF alignment' = 0
       THEN pc' = "panic_divide" /\ UNCHANGED <<offset, padStart>>
       ELSE /\ padStart' = offset
            /\ offset' = offset + PadDistance(alignment', offset)
            /\ pc' = "skip"
    /\ i' = 0
    /\ UNCHANGED <<focus, eof, Version, NumTensor, NumKV, k, vtype, atype, n,
                   arr, tensors, parameters, name, dims, shape, kind,
                   namesize, model, err, entries, wire, raw, skipped>>

\* One iteration of the loop that skips the tensors' bytes.
SkipTensor ==
    /\ pc = "skip"
    /\ i < Len(tensors)
    /\ offset' = offset + Padded(tensorSize(tensors[i + 1]), alignment)
    /\ skipped' = Append(skipped, Padded(tensorSize(tensors[i + 1]), alignment))
    /\ i' = i + 1
    /\ UNCHANGED <<pc, focus, eof, Version, NumTensor, NumKV, k, vtype, atype,
                   n, arr, kv, tensors, parameters, name, dims, shape, kind,
                   namesize, alignment, model, err, entries, wire, raw, padStart>>

\* return nil
DecodeDone ==
    /\ pc = "skip"
    /\ i >= Len(tensors)
    /\ ReturnGGUF(NilErr)
    /\ UNCHANGED <<focus, eof, offset, Version, NumTensor, NumKV, i, k, vtype,
                   atype, n, arr, kv, tensors, parameters, name, dims, shape,
                   kind, namesize, alignment, entries, wire, raw, padStart, skipped>>

\* The offset at which Decode is entered: past the four magic bytes the
\* dispatcher has read.
StartOffsets == {4}

InitCommon ==
    /\ eof = FALSE
    /\ offset \in StartOffsets
    /\ Version = 0
    /\ NumTensor = 0
    /\ NumKV = 0
    /\ i = 0
    /\ k = <<>>
    /\ vtype = 0
    /\ atype = 0
    /\ n = 0
    /\ arr = <<>>
    /\ kv = <<>>
    /\ tensors = <<>>
    /\ parameters = 0
    /\ name = <<>>
    /\ dims = 0
    /\ shape = <<>>
    /\ kind = 0
    /\ namesize = 0
    /\ alignment = 0
    /\ model = "none"
    /\ err = NilErr
    /\ entries = <<>>
    /\ wire = <<>>
    /\ raw = <<>>
    /\ padStart = -1
    /\ skipped = <<>>

InitGGUF ==
    /\ pc = "version"
    /\ focus \in {"kv", "tensor", "short"}
    /\ InitCommon

NextGGUF ==
    \/ ReadVersion
    \/ ReadCounts
    \/ ReadKey
    \/ ReadTag
    \/ ReadScalar
    \/ ReadStringValue
    \/ ReadArrayHead
    \/ ReadArrayElement
    \/ ReadTensorName
    \/ ReadDims
    \/ ReadShape
    \/ ReadTensorTail
    \/ Finish
    \/ SkipTensor
    \/ DecodeDone

SpecGGUF == InitGGUF /\ [][NextGGUF]_vars

-----------------------------------------------------------------------------
(* Format-B: containerGGLA.Decode and modelGGLA.decode. *)

KeyR == <<"r">>

KeyAlpha == <<"a","l","p","h","a">>

SeekErr == [kind |-> "seek", tag |-> 0]

GGLAVersionPool == {0, 1, 2}

GGLANamePool == {<<>>, <<"a">>, <<"b">>}

GGLADimsPool == 0..MaxDims

GGLAShapePool == {2, 3}

\* The shape left in wire order.
NotReversed(s) == s

\* slices.Reverse
RECURSIVE Reverse(_)
Reverse(s) == IF s = <<>> THEN <<>> ELSE Append(Reverse(Tail(s)), Head(s))

\* (rso.offset + 31) & -32
AlignOffset(off) == AndNot(off + 31, 31)

\* m.tensors = append(m.tensors, t)
AppendTensor(ts, t) == Append(ts, t)

\* A Decode that hands back no model when decode failed.
ResultNilOnError(e) ==
    [model |-> IF e = NilErr THEN "model" ELSE "nil", err |-> e]

\* containerGGLA.Decode hands back the model it built together with the
\* error of decode.
ResultGGLA(e) == [model |-> "model", err |-> e]

ReturnGGLA(e) ==
    /\ model' = ResultGGLA(e).model
    /\ err' = ResultGGLA(e).err
    /\ pc' = "done"

ggufOnly ==
    <<focus, NumTensor, NumKV, i, k, vtype, atype, n, arr, parameters,
      alignment, entries, padStart, skipped>>

LaVersion ==
    /\ pc = "la_version"
    /\ \E r \in binaryRead(eof, 4, GGLAVersionPool, 0) :
         /\ Version' = r.v
         /\ eof' = (eof \/ ~r.ok)
         /\ offset' = offset + r.got
         /\ IF r.v = 1
            THEN pc' = "la_r" /\ UNCHANGED <<model, err>>
            ELSE model' = "nil" /\ err' = InvalidVersion /\ pc' = "done"
    /\ UNCHANGED <<kv, tensors, name, dims, shape, kind, namesize, wire, raw>>
    /\ UNCHANGED ggufOnly

LaR ==
    /\ pc = "la_r"
    /\ \E r \in binaryRead(eof, 4, {8}, 0) :
         /\ eof' = (eof \/ ~r.ok)
         /\ offset' = offset + r.got
         /\ IF ~r.ok
            THEN ReturnGGLA(EOFErr) /\ UNCHANGED kv
            ELSE /\ kv' = Put(kv, KeyR, [t |-> ggufTypeUint32, v |-> r.v])
                 /\ pc' = "la_alpha"
                 /\ UNCHANGED <<model, err>>
    /\ UNCHANGED <<Version, tensors, name, dims, shape, kind, namesize, wire, raw>>
    /\ UNCHANGED ggufOnly

LaAlpha ==
    /\ pc = "la_alpha"
    /\ \E r \in binaryRead(eof, 4, {16}, 0) :
         /\ eof' = (eof \/ ~r.ok)
         /\ offset' = offset + r.got
         /\ IF ~r.ok
            THEN ReturnGGLA(EOFErr) /\ UNCHANGED kv
            ELSE /\ kv' = Put(kv, KeyAlpha, [t |-> ggufTypeUint32, v |-> r.v])
                 /\ pc' = "la_dims"
                 /\ UNCHANGED <<model, err>>
    /\ UNCHANGED <<Version, tensors, name, dims, shape, kind, namesize, wire, raw>>
    /\ UNCHANGED ggufOnly

\* The head of the tensor loop.  The streams served hold at most MaxTensors
\* entries: after that many the stream has ended.
LaDims ==
    /\ pc = "la_dims"
    /\ \E r \in binaryRead(eof, 4,
                           IF Len(tensors) < MaxTensors THEN GGLADimsPool ELSE {},
                           0) :
         /\ eof' = (eof \/ ~r.ok)
         /\ offset' = offset + r.got
         /\ IF ~r.ok
            THEN ReturnGGLA(EOFErr) /\ UNCHANGED dims
            ELSE dims' = r.v /\ pc' = "la_namesize" /\ UNCHANGED <<model, err>>
    /\ raw' = <<>>
    /\ UNCHANGED <<Version, kv, tensors, name, shape, kind, namesize, wire>>
    /\ UNCHANGED ggufOnly

LaNamesize ==
    /\ pc = "la_namesize"
    /\ \E r \in binaryRead(eof, 4, {Len(w) : w \in GGLANamePool}, 0) :
         /\ eof' = (eof \/ ~r.ok)
         /\ offset' = offset + r.got
         /\ IF ~r.ok
            THEN ReturnGGLA(EOFErr) /\ UNCHANGED namesize
            ELSE namesize' = r.v /\ pc' = "la_kind" /\ UNCHANGED <<model, err>>
    /\ UNCHANGED <<Version, kv, tensors, name, dims, shape, kind, wire, raw>>
    /\ UNCHANGED ggufOnly

\* t.Kind, then t.Shape = make([]uint64, dims).
LaKind ==
    /\ pc = "la_kind"
    /\ \E r \in binaryRead(eof, 4, {0}, 0) :
         /\ eof' = (eof \/ ~r.ok)
         /\ offset' = offset + r.got
         /\ IF ~r.ok
            THEN ReturnGGLA(EOFErr) /\ UNCHANGED <<kind, shape>>
            ELSE /\ kind' = r.v
                 /\ shape' = <<>>
                 /\ pc' = IF 0 < dims THEN "la_shape" ELSE "la_name"
                 /\ UNCHANGED <<model, err>>
    /\ UNCHANGED <<Version, kv, tensors, name, dims, namesize, wire, raw>>
    /\ UNCHANGED ggufOnly

\* One iteration of the shape loop: a 32-bit value, widened.
LaShape ==
    /\ pc = "la_shape"
    /\ \E r \in binaryRead(eof, 4, GGLAShapePool, 0) :
         /\ eof' = (eof \/ ~r.ok)
         /\ offset' = offset + r.got
         /\ IF ~r.ok
            THEN ReturnGGLA(EOFErr) /\ UNCHANGED <<shape, raw>>
            ELSE /\ shape' = Append(shape, r.v)
                 /\ raw' = Append(raw, r.v)
                 /\ pc' = IF Len(shape) + 1 < dims THEN "la_shape" ELSE "la_name"
                 /\ UNCHANGED <<model, err>>
    /\ UNCHANGED <<Version, kv, tensors, name, dims, kind, namesize, wire>>
    /\ UNCHANGED ggufOnly

\* slices.Reverse(t.Shape), then the name.
LaName ==
    /\ pc = "la_name"
    /\ \E r \in ReadBytes(eof, namesize, GGLANamePool) :
         /\ eof' = (eof \/ ~r.ok)
         /\ offset' = offset + r.got
         /\ IF ~r.ok
            THEN ReturnGGLA(EOFErr) /\ UNCHANGED <<name, wire>>
            ELSE /\ name' = r.b
                 /\ wire' = Append(wire, [dims |-> dims, vals |-> raw, name |-> r.b])
                 /\ pc' = "la_seek"
                 /\ UNCHANGED <<model, err>>
    /\ shape' = Reverse(shape)
    /\ UNCHANGED <<Version, kv, tensors, dims, kind, namesize, raw>>
    /\ UNCHANGED ggufOnly

\* The seek to the aligned offset, the seek past the tensor's bytes, the
\* append.  Whether a seek succeeds is the stream's choice.
LaSeek ==
    /\ pc = "la_seek"
    /\ \E ok1 \in BOOLEAN, ok2 \in BOOLEAN :
         LET t == [Name |-> name, Kind |-> kind,
                   offset |-> AlignOffset(offset), Shape |-> shape]
         IN IF ~ok1
            THEN ReturnGGLA(SeekErr) /\ UNCHANGED <<offset, tensors>>
            ELSE IF ~ok2
            THEN /\ ReturnGGLA(SeekErr)
                 /\ offset' = AlignOffset(offset)
                 /\ UNCHANGED tensors
            ELSE /\ offset' = AlignOffset(offset) + tensorSize(t)
                 /\ tensors' = AppendTensor(tensors, t)
                 /\ pc' = "la_dims"
                 /\ UNCHANGED <<model, err>>
    /\ UNCHANGED <<eof, Version, kv, name, dims, shape, kind, namesize, wire, raw>>
    /\ UNCHANGED ggufOnly

InitGGLA ==
    /\ pc = "la_version"
    /\ focus = "ggla"
    /\ InitCommon

NextGGLA ==
    \/ LaVersion
    \/ LaR
    \/ LaAlpha
    \/ LaDims
    \/ LaNamesize
    \/ LaKind
    \/ LaShape
    \/ LaName
    \/ LaSeek

SpecGGLA == InitGGLA /\ [][NextGGLA]_vars

-----------------------------------------------------------------------------
(* Properties of Format-A. *)

Succeeded == pc = "done" /\ err = NilErr

\* Entry j of the stream passes the filter of decode.
Kept(j) == entries[j].t # ggufTypeArray /\ entries[j].k # KeyChatTemplate

\* Entry j is the last entry of its key that passes the filter.
LastKept(j) ==
    /\ Kept(j)
    /\ \A m \in (j + 1)..Len(entries) : ~(Kept(m) /\ entries[m].k = entries[j].k)

\* The store holds entry j's value under entry j's key.
Stored(j) ==
    /\ entries[j].k \in DOMAIN kv
    /\ kv[entries[j].k].t = entries[j].t
    /\ kv[entries[j].k].v = entries[j].v

\* The bytes an entry takes in a stream of version ver.
LenWidth(ver) == IF ver = 1 THEN 4 ELSE 8

StringBytes(str, ver) == LenWidth(ver) + Len(str) + (IF ver = 1 THEN 1 ELSE 0)

RECURSIVE ElementBytes(_, _, _)
ElementBytes(elems, at, ver) ==
    IF elems = <<>>
    THEN 0
    ELSE (IF at = ggufTypeString THEN StringBytes(Head(elems), ver) ELSE Width(at))
         + ElementBytes(Tail(elems), at, ver)

EntryBytes(e, ver) ==
    StringBytes(e.k, ver) + 4
    + (IF e.t = ggufTypeString THEN StringBytes(e.v, ver)
       ELSE IF e.t = ggufTypeArray
       THEN 4 + LenWidth(ver) + ElementBytes(e.v, e.at, ver)
       ELSE Width(e.t))

\* Every entry, kept or dropped, ends where its bytes end in the stream.
Consumed ==
    \A j \in 1..Len(entries) :
      \E start \in StartOffsets :
        entries[j].end =
          EntryBytes(entries[j], Version)
          + (IF j = 1
             THEN start + 4 + 2 * LenWidth(Version)
             ELSE entries[j - 1].end)

\* The store holds nothing but kept entries and the synthesized key.
OnlyKept ==
    /\ KeyChatTemplate \notin DOMAIN kv
    /\ \A key \in DOMAIN kv :
         /\ kv[key].t # ggufTypeArray
         /\ \/ key = KeyParameterCount
            \/ \E j \in 1..Len(entries) : Kept(j) /\ entries[j].k = key

\* C3, as claimed: after a successful decode the store holds no array entry
\* and no chat template, every other entry of the stream is in the store
\* under its key with its value (the last one of a key), and the dropped
\* entries' bytes are consumed.
C3_EveryOtherEntryStored ==
    Succeeded =>
      /\ OnlyKept
      /\ \A j \in 1..Len(entries) : LastKept(j) => Stored(j)
      /\ (~eof => Consumed)

\* C3, amended: as above, except that the key "general.parameter_count"
\* holds the synthesized count and not the value the stream gave it.
C3_EveryOtherEntryStoredButCount ==
    Succeeded =>
      /\ OnlyKept
      /\ \A j \in 1..Len(entries) :
           LastKept(j) /\ entries[j].k # KeyParameterCount => Stored(j)
      /\ (~eof => Consumed)

\* A successful decode of a stream with an array entry followed by a kept
\* entry, and with a key given twice.
C3_Witness ==
    /\ Succeeded
    /\ ~eof
    /\ Len(entries) >= 2
    /\ entries[1].t = ggufTypeArray
    /\ Len(entries[1].v) > 0
    /\ LastKept(2)
    /\ entries[2].k = entries[1].k
    /\ entries[2].k # KeyParameterCount

\* C1: an unknown type tag of a top-level entry ends Decode with the
\* unknown-tag error that carries the tag, and with no model.
C1_UnknownTagErrorAndNoModel ==
    pc = "done" /\ err.kind = "invalid type" =>
      /\ err.tag = vtype
      /\ vtype \notin 0..12
      /\ model = "nil"

\* C2: a stream that ends inside a field Format-A reads never decodes with a
\* nil error.
C2_ShortReadIsFatal == pc = "done" /\ eof => err # NilErr

\* The alignment the stream declares: the uint32 under "general.alignment",
\* 32 without one.
DeclaredAlignment ==
    LET js == {j \in 1..Len(entries) : LastKept(j) /\ entries[j].k = KeyAlignment}
    IN IF \E j \in js : entries[j].t = ggufTypeUint32
       THEN entries[CHOOSE j \in js : TRUE].v
       ELSE 32

\* C4: every tensor skip is the smallest multiple of the declared alignment
\* that is not less than the tensor's byte size.
C4_SkipIsSmallestMultiple ==
    /\ padStart >= 0 => alignment = DeclaredAlignment
    /\ \A j \in 1..Len(skipped) :
         skipped[j] = SmallestMultiple(alignment, tensorSize(tensors[j]))

RECURSIVE SumOfElementCounts(_)
SumOfElementCounts(ts) ==
    IF ts = <<>>
    THEN 0
    ELSE Product(Head(ts).Shape) + SumOfElementCounts(Tail(ts))

\* C7: after a successful decode "general.parameter_count" holds, as a
\* uint64, the sum of the element counts of the decoded tensors, whatever the
\* stream gave that key.
C7_ParameterCountIsSum ==
    Succeeded =>
      /\ KeyParameterCount \in DOMAIN kv
      /\ kv[KeyParameterCount].t = ggufTypeUint64
      /\ kv[KeyParameterCount].v = SumOfElementCounts(tensors)

\* A successful decode of two tensors of different shapes from a stream that
\* gives "general.parameter_count" a value of its own.
C7_Witness ==
    /\ Succeeded
    /\ Len(tensors) = 2
    /\ tensors[1].Shape # tensors[2].Shape
    /\ Len(tensors[1].Shape) = 2
    /\ \E j \in 1..Len(entries) :
         /\ Kept(j)
         /\ entries[j].k = KeyParameterCount
         /\ entries[j].v # SumOfElementCounts(tensors)

\* C8: the pad-to-alignment seek leaves the stream at the smallest multiple
\* of the alignment that is not less than the offset it started from.
C8_PadReachesNextBoundary ==
    pc = "skip" /\ skipped = <<>> =>
      /\ offset = SmallestMultiple(alignment, padStart)
      /\ offset - padStart < alignment

\* C9: an array whose element tag is neither a scalar tag nor the string tag
\* is never decoded, whatever its count, and the error carries the tag.
C9_BadElementTagFails ==
    /\ \A j \in 1..Len(entries) :
         entries[j].t = ggufTypeArray =>
           entries[j].at \in ScalarTags \cup {ggufTypeString}
    /\ pc = "done" /\ err.kind = "invalid array type" => err.tag = atype

\* C10: a string read never ends in a crash.
C10_StringReadNeverCrashes == pc # "panic_truncate"

-----------------------------------------------------------------------------
(* Properties of Format-B. *)

\* C5: the shape of every tensor appended is the reverse of the dimension
\* values of its entry in wire order, as many as the entry's dimension
\* count, and the tensors stand in the order of their entries.
C5_ShapeIsReversedWire ==
    \A j \in 1..Len(tensors) :
      /\ j <= Len(wire)
      /\ tensors[j].Name = wire[j].name
      /\ Len(tensors[j].Shape) = wire[j].dims
      /\ Len(wire[j].vals) = wire[j].dims
      /\ \A x \in 1..wire[j].dims :
           tensors[j].Shape[x] = wire[j].vals[wire[j].dims + 1 - x]

\* Two tensors appended, the first of two unequal dimensions.
C5_Witness ==
    /\ Len(tensors) = 2
    /\ tensors[1].Name # tensors[2].Name
    /\ wire[1].vals = <<2, 3>>
    /\ tensors[1].Shape = <<3, 2>>

\* C6: for version 1 Decode returns the model with an error, never nil; the
\* model holds the tensors of the entries completely read, less the one
\* whose seek failed, and no entry read in part.
C6_PartialModelWithError ==
    pc = "done" /\ Version = 1 =>
      /\ err # NilErr
      /\ model = "model"
      /\ Len(tensors) = (IF err = SeekErr THEN Len(wire) - 1 ELSE Len(wire))
      /\ \A j \in 1..Len(tensors) : tensors[j].Name = wire[j].name

\* A stream that ends inside the shape of its second entry.
C6_Witness ==
    /\ pc = "done"
    /\ Version = 1
    /\ err = EOFErr
    /\ Len(tensors) = 1
    /\ raw # <<>>
    /\ Len(raw) < dims

=============================================================================
